---------------------------- MODULE Spec2Model ----------------------------
(***************************************************************************)
(* Model of package recordfile (src/recordfile/recordfile.go): the schema  *)
(* check of New, the tokenizer ReadData, the per-row coercion and index    *)
(* construction of Read, and the accessors Record, NumRecord, Indexes and  *)
(* Index.                                                                  *)
(*                                                                         *)
(* A Go string is a sequence of one-character strings.  A Go value of a    *)
(* record field is a pair <<kind, payload>>, so that two interface{} map   *)
(* keys are equal exactly when their dynamic types and payloads are.  A    *)
(* *struct returned by reflect.New is an address <<load, row>>; the        *)
(* structs themselves live in heap.                                        *)
(***************************************************************************)
EXTENDS Integers, Sequences, FiniteSets, TLC

\* ------------------------------------------------------------------ strings

\* The initial values of the package variables Comma, Comment, LineEndStr.
DefaultComma == <<"~">>
DefaultComment == <<"#">>
DefaultLineEndStr == <<"!", "#", "#", "#", "#", "!", "\n">>

\* Bind(e, F) is F(e) with e evaluated once, before F is applied to it.
Bind(e, F(_)) == CHOOSE y \in {F(x) : x \in {e}} : TRUE

\* s[k:] and s[:k]
Drop(s, k) == SubSeq(s, k + 1, Len(s))
Take(s, k) == SubSeq(s, 1, k)

\* strings.HasPrefix
HasPrefix(s, p) == Len(p) <= Len(s) /\ Take(s, Len(p)) = p

\* strings.HasSuffix
HasSuffix(s, p) == Len(p) <= Len(s) /\ Drop(s, Len(s) - Len(p)) = p

\* strings.Index: the 0-based offset of the first sep in s, or -1.
Match(s, sep, k) == SubSeq(s, k + 1, k + Len(sep)) = sep

IndexOf(s, sep) ==
    IF \E k \in 0..(Len(s) - Len(sep)) : Match(s, sep, k)
    THEN CHOOSE k \in 0..(Len(s) - Len(sep)) :
            Match(s, sep, k) /\ \A j \in 0..(k - 1) : ~Match(s, sep, j)
    ELSE -1

\* strings.Split(s, sep): with sep empty the string is exploded into its
\* characters; otherwise s is cut at every non-overlapping sep, left to right,
\* and the result always has at least one element.
RECURSIVE SplitSep(_, _)
SplitSep(s, sep) ==
    Bind(IndexOf(s, sep), LAMBDA m :
        IF m < 0 THEN <<s>>
        ELSE Bind(Drop(s, m + Len(sep)), LAMBDA rest :
                <<Take(s, m)>> \o SplitSep(rest, sep)))

Split(s, sep) ==
    IF sep = <<>> THEN [k \in 1..Len(s) |-> <<s[k]>>]
    ELSE SplitSep(s, sep)

\* unicode.IsSpace on the characters the model draws.
IsSpace(c) == c \in {" ", "\t", "\n", "\r"}

\* strings.TrimSpace
TrimSpace(s) ==
    IF \A k \in 1..Len(s) : IsSpace(s[k]) THEN <<>>
    ELSE SubSeq(s,
                CHOOSE a \in 1..Len(s) :
                    ~IsSpace(s[a]) /\ \A j \in 1..(a - 1) : IsSpace(s[j]),
                CHOOSE b \in 1..Len(s) :
                    ~IsSpace(s[b]) /\ \A j \in (b + 1)..Len(s) : IsSpace(s[j]))

\* ------------------------------------------------------------------ strconv

\* The value of a digit character in bases up to 16, or 99 for any other
\* character.
DigitVal(c) ==
    CASE c = "0" -> 0 [] c = "1" -> 1 [] c = "2" -> 2 [] c = "3" -> 3
      [] c = "4" -> 4 [] c = "5" -> 5 [] c = "6" -> 6 [] c = "7" -> 7
      [] c = "8" -> 8 [] c = "9" -> 9
      [] c \in {"a", "A"} -> 10 [] c \in {"b", "B"} -> 11
      [] c \in {"c", "C"} -> 12 [] c \in {"d", "D"} -> 13
      [] c \in {"e", "E"} -> 14 [] c \in {"f", "F"} -> 15
      [] OTHER -> 99

\* acc extended by the digits of s read in the given base: -1 when s
\* holds a character that is no digit of the base.
RECURSIVE Digits(_, _, _)
Digits(s, base, acc) ==
    IF s = <<>> THEN acc
    ELSE IF DigitVal(s[1]) >= base THEN -1
    ELSE Bind(<<Tail(s), acc * base + DigitVal(s[1])>>, LAMBDA a :
            Digits(a[1], base, a[2]))

\* The magnitude strconv reads with base 0: a "0x", "0b" or "0o" prefix
\* selects base 16, 2 or 8, a leading "0" selects base 8, anything else is
\* decimal.  -1 is a syntax error.  (Underscore separators are not drawn.)
Magnitude(s) ==
    IF s = <<>> THEN -1
    ELSE IF Len(s) >= 2 /\ s[1] = "0" /\ s[2] \in {"x", "X"}
        THEN (IF Len(s) = 2 THEN -1 ELSE Digits(Drop(s, 2), 16, 0))
    ELSE IF Len(s) >= 2 /\ s[1] = "0" /\ s[2] \in {"b", "B"}
        THEN (IF Len(s) = 2 THEN -1 ELSE Digits(Drop(s, 2), 2, 0))
    ELSE IF Len(s) >= 2 /\ s[1] = "0" /\ s[2] \in {"o", "O"}
        THEN (IF Len(s) = 2 THEN -1 ELSE Digits(Drop(s, 2), 8, 0))
    ELSE IF Len(s) >= 2 /\ s[1] = "0" THEN Digits(Tail(s), 8, 0)
    ELSE Digits(s, 10, 0)

\* strconv.ParseUint(s, 0, bits): no sign is accepted, and the value must
\* fit bits bits.
ParseUint(s, bits) ==
    Bind(Magnitude(s), LAMBDA m :
        IF m < 0 \/ m >= 2 ^ bits THEN [err |-> TRUE, v |-> 0]
        ELSE [err |-> FALSE, v |-> m])

\* strconv.ParseInt(s, 0, bits): an optional sign, then as ParseUint; the
\* value must lie in -2^(bits-1) .. 2^(bits-1) - 1.
ParseInt(s, bits) ==
    Bind(<<s # <<>> /\ s[1] = "-",
           Magnitude(IF s # <<>> /\ s[1] \in {"+", "-"} THEN Tail(s) ELSE s)>>,
         LAMBDA a :
            IF a[2] < 0 THEN [err |-> TRUE, v |-> 0]
            ELSE IF a[1] /\ a[2] > 2 ^ (bits - 1) THEN [err |-> TRUE, v |-> 0]
            ELSE IF ~a[1] /\ a[2] >= 2 ^ (bits - 1) THEN [err |-> TRUE, v |-> 0]
            ELSE [err |-> FALSE, v |-> IF a[1] THEN 0 - a[2] ELSE a[2]])

\* strconv.ParseBool
ParseBool(s) ==
    IF s \in {<<"1">>, <<"t">>, <<"T">>, <<"t", "r", "u", "e">>,
              <<"T", "R", "U", "E">>, <<"T", "r", "u", "e">>}
        THEN [err |-> FALSE, v |-> TRUE]
    ELSE IF s \in {<<"0">>, <<"f">>, <<"F">>, <<"f", "a", "l", "s", "e">>,
                   <<"F", "A", "L", "S", "E">>, <<"F", "a", "l", "s", "e">>}
        THEN [err |-> FALSE, v |-> FALSE]
    ELSE [err |-> TRUE, v |-> FALSE]

\* strconv.ParseFloat on plain decimal literals, [sign] digits [. digits]
\* with at least one digit (exponents, hexadecimal floats, infinities and
\* NaN are not drawn).  The value is the pair <<mantissa, decimals>> in
\* lowest terms, so that 1, 1.0 and 01 are one value and -0 is 0.
RECURSIVE Lowest(_, _)
Lowest(m, d) == IF d > 0 /\ m % 10 = 0 THEN Lowest(m \div 10, d - 1) ELSE <<m, d>>

ParseFloat(s) ==
    Bind(Split(IF s # <<>> /\ s[1] \in {"+", "-"} THEN Tail(s) ELSE s, <<".">>),
         LAMBDA parts :
            Bind(<<Digits(parts[1] \o (IF Len(parts) = 2 THEN parts[2] ELSE <<>>), 10, 0),
                   IF Len(parts) = 2 THEN Len(parts[2]) ELSE 0,
                   Len(parts) > 2 \/ (Len(parts) = 1 /\ parts[1] = <<>>)
                       \/ (Len(parts) = 2 /\ parts[1] \o parts[2] = <<>>)>>,
                 LAMBDA a :
                    IF a[3] \/ a[1] < 0 THEN [err |-> TRUE, v |-> <<0, 0>>]
                    ELSE Bind(Lowest(a[1], a[2]), LAMBDA q :
                            [err |-> FALSE,
                             v |-> IF s # <<>> /\ s[1] = "-" THEN <<0 - q[1], q[2]>>
                                   ELSE q])))

\* ------------------------------------------------- encoding/json, reflect

\* The kinds New lets through its first switch.
ValidKinds ==
    {"bool", "int", "int8", "int16", "int32", "int64",
     "uint", "uint8", "uint16", "uint32", "uint64",
     "float32", "float64", "string", "struct", "array", "slice", "map"}

IntKinds == {"int", "int8", "int16", "int32", "int64"}
UintKinds == {"uint", "uint8", "uint16", "uint32", "uint64"}
FloatKinds == {"float32", "float64"}
JsonKinds == {"struct", "array", "slice", "map"}

\* reflect.Type.Bits of a numeric kind.
Bits(kind) ==
    CASE kind \in {"int8", "uint8"} -> 8
      [] kind \in {"int16", "uint16"} -> 16
      [] kind \in {"int32", "uint32", "float32"} -> 32
      [] OTHER -> 64

\* The zero value reflect.New gives a field.  Composite fields are drawn
\* as struct{}, [2]int8, []int8 and map[string]int8.
ZeroPayload(kind) ==
    CASE kind = "bool" -> FALSE
      [] kind \in IntKinds \cup UintKinds -> 0
      [] kind \in FloatKinds -> <<0, 0>>
      [] kind = "string" -> <<>>
      [] kind = "struct" -> 0
      [] kind = "array" -> <<0, 0>>
      [] kind = "slice" -> [isnil |-> TRUE, elems |-> <<>>]
      [] OTHER -> [isnil |-> TRUE]

Zero(kind) == <<kind, ZeroPayload(kind)>>

JsonNull == <<"n", "u", "l", "l">>
JsonObject == <<"{", "}">>
JsonArray == <<"[", "]">>
JsonArray1 == <<"[", "1", "]">>

\* json.Unmarshal of the literals null, {}, [] and [1] into a field of a
\* composite kind; every other literal the model draws is malformed or of
\* the wrong shape for such a field.
Unmarshal(kind, s) ==
    IF s = JsonNull THEN [err |-> FALSE, v |-> ZeroPayload(kind)]
    ELSE IF s = JsonObject /\ kind = "struct" THEN [err |-> FALSE, v |-> 0]
    ELSE IF s = JsonObject /\ kind = "map" THEN [err |-> FALSE, v |-> [isnil |-> FALSE]]
    ELSE IF s = JsonArray /\ kind = "array" THEN [err |-> FALSE, v |-> <<0, 0>>]
    ELSE IF s = JsonArray1 /\ kind = "array" THEN [err |-> FALSE, v |-> <<1, 0>>]
    ELSE IF s = JsonArray /\ kind = "slice"
        THEN [err |-> FALSE, v |-> [isnil |-> FALSE, elems |-> <<>>]]
    ELSE IF s = JsonArray1 /\ kind = "slice"
        THEN [err |-> FALSE, v |-> [isnil |-> FALSE, elems |-> <<1>>]]
    ELSE [err |-> TRUE, v |-> ZeroPayload(kind)]

\* ------------------------------------------------------------------ errors

Err(kind, row, col, got, want) ==
    [kind |-> kind, row |-> row, col |-> col, got |-> got, want |-> want]

Nil == Err("nil", 0, 0, 0, 0)

\* ------------------------------------------------------------------ New

\* The type of New's argument: the kind of the value and, for a struct,
\* its fields in declaration order, each with its kind, its tag and
\* whether its name is exported.
NilType == [kind |-> "nil", fields |-> <<>>]

\* The zero *RecordFile and the nil *RecordFile.
NoStore == [live |-> FALSE, Comma |-> <<>>, Comment |-> <<>>, LineEndStr |-> <<>>,
            typeRecord |-> <<>>, records |-> <<>>, indexes |-> <<>>]

\* The check of field i (0-based) in New's loop: Nil when the field passes.
FieldCheck(f, i) ==
    IF f.kind \notin ValidKinds THEN Err("invalid type", 0, i, 0, 0)
    ELSE IF f.tag = "index" /\ f.kind \in {"struct", "slice", "map"}
        THEN Err("could not index", 0, i, 0, 0)
    ELSE Nil

RECURSIVE CheckFields(_, _)
CheckFields(fields, i) ==
    IF i >= Len(fields) THEN Nil
    ELSE IF FieldCheck(fields[i + 1], i) # Nil THEN FieldCheck(fields[i + 1], i)
    ELSE CheckFields(fields, i + 1)

\* New(st): the error, and the store it returns when the error is Nil.
NewResult(st) ==
    IF st.kind # "struct" THEN [err |-> Err("st must be a struct", 0, 0, 0, 0), rf |-> NoStore]
    ELSE IF CheckFields(st.fields, 0) # Nil
        THEN [err |-> CheckFields(st.fields, 0), rf |-> NoStore]
    ELSE [err |-> Nil,
          rf |-> [NoStore EXCEPT !.live = TRUE, !.typeRecord = st.fields]]

\* ------------------------------------------------------------------ ReadData

\* A file of the file system: whether it can be opened, and its content.
NoFile == [exists |-> FALSE, content |-> <<>>]

\* Lines 98-107 with comment lines kept: only the empty chunk is dropped.
SkipsBlankOnly(raw, line, comment) == raw = <<>>

\* Lines 98-107: the chunks the loop passes over.  raw is the chunk, line
\* the chunk without its one trailing newline.
Skips(raw, line, comment) == raw = <<>> \/ HasPrefix(line, comment)

\* One pass of ReadData's loop over the chunks: an empty chunk is skipped, one
\* trailing newline is stripped, a chunk that then starts with the comment
\* marker is skipped, and every other chunk is split into its tokens.
RECURSIVE Rows(_, _, _)
Rows(lines, comment, comma) ==
    IF lines = <<>> THEN <<>>
    ELSE Bind(<<Head(lines), Tail(lines)>>, LAMBDA a :
            Bind(IF HasSuffix(a[1], <<"\n">>) THEN Take(a[1], Len(a[1]) - 1) ELSE a[1],
                 LAMBDA line :
                    IF Skips(a[1], line, comment) THEN Rows(a[2], comment, comma)
                    ELSE <<Split(line, comma)>> \o Rows(a[2], comment, comma)))

\* rf.ReadData(fileName): the rows of the file, or the error of os.Open.
ReadData(cfg, f) ==
    IF ~f.exists THEN [err |-> Err("open", 0, 0, 0, 0), rows |-> <<>>]
    ELSE Bind(Split(f.content, cfg.LineEndStr), LAMBDA lines :
            [err |-> Nil, rows |-> Rows(lines, cfg.Comment, cfg.Comma)])

\* ------------------------------------------------------------------ Read

\* The nil interface{} and the nil Index.
NilRef == <<0, 0>>
NilIndex == [isnil |-> TRUE, entries |-> <<>>]
MakeIndex == [isnil |-> FALSE, entries |-> <<>>]

\* Equality of two interface{} map keys: same dynamic type, same value.
KeyEq(a, b) == a[1] = b[1] /\ a[2] = b[2]

\* Line 243 without the test: no key is ever found in the index.
HasNoKey(index, key) == FALSE

\* _, ok := index[key]
HasKey(index, key) == \E k \in 1..Len(index.entries) : KeyEq(index.entries[k][1], key)

\* index[key]: the nil interface{} when the key is absent.
Lookup(index, key) ==
    IF HasKey(index, key)
    THEN index.entries[CHOOSE k \in 1..Len(index.entries) :
                           KeyEq(index.entries[k][1], key)][2]
    ELSE NilRef

\* index[key] = ref, for a key the index does not hold.
Insert(index, key, ref) == [index EXCEPT !.entries = Append(@, <<key, ref>>)]

\* Lines 123-132 with the documented defaults in place of the package
\* variables.
FillDefaults(store, comma, comment, lineEnd) ==
    [store EXCEPT !.Comma = IF @ = <<>> THEN DefaultComma ELSE @,
                  !.Comment = IF @ = <<>> THEN DefaultComment ELSE @,
                  !.LineEndStr = IF @ = <<>> THEN DefaultLineEndStr ELSE @]

\* Lines 123-132: the store's unset separators take the current values of
\* the package variables, and keep them.
FillConfig(store, comma, comment, lineEnd) ==
    [store EXCEPT !.Comma = IF @ = <<>> THEN comma ELSE @,
                  !.Comment = IF @ = <<>> THEN comment ELSE @,
                  !.LineEndStr = IF @ = <<>> THEN lineEnd ELSE @]

\* Lines 145-152: one empty index per field tagged "index", exported or not.
RECURSIVE MakeIndexes(_)
MakeIndexes(T) ==
    IF T = <<>> THEN <<>>
    ELSE (IF Head(T).tag = "index" THEN <<MakeIndex>> ELSE <<>>) \o MakeIndexes(Tail(T))

\* Lines 179-232: the token of one field parsed by the field's kind.
Coerce(kind, strField) ==
    Bind(IF TrimSpace(strField) = <<>> THEN <<"0">> ELSE strField, LAMBDA blank0 :
        Bind(CASE kind = "bool" -> ParseBool(strField)
               [] kind \in IntKinds -> ParseInt(blank0, Bits(kind))
               [] kind \in UintKinds -> ParseUint(blank0, Bits(kind))
               [] kind \in FloatKinds -> ParseFloat(blank0)
               [] kind = "string" -> [err |-> FALSE, v |-> strField]
               [] OTHER -> Unmarshal(kind, strField),
             LAMBDA r : [err |-> r.err, v |-> <<kind, r.v>>]))

\* The struct reflect.New allocates: every field at its zero value.
NewRecord(T) == [i \in 1..Len(T) |-> Zero(T[i].kind)]

\* Lines 167-249, from field i (0-based) on, for data row n whose record
\* lives at ref: a field that cannot be set is passed over, index step
\* included; every other field is parsed and stored, and when it is tagged
\* "index" its value is looked up in and added to the next index, before
\* the following field is parsed.
RECURSIVE Fields(_, _, _, _, _, _)
Fields(T, line, n, i, ref, acc) ==
    IF i >= Len(T) THEN acc
    ELSE IF ~T[i + 1].exported THEN Fields(T, line, n, i + 1, ref, acc)
    ELSE Bind(Coerce(T[i + 1].kind, line[i + 1]), LAMBDA c :
        IF c.err THEN [acc EXCEPT !.err = Err("parse field", n, i, 0, 0)]
        ELSE Bind([acc EXCEPT !.record[i + 1] = c.v], LAMBDA set :
            IF T[i + 1].tag # "index" THEN Fields(T, line, n, i + 1, ref, set)
            ELSE IF HasKey(acc.indexes[acc.iIndex + 1], c.v)
                THEN [set EXCEPT !.err = Err("index error: duplicate", n, i, 0, 0)]
            ELSE Bind([set EXCEPT !.indexes[acc.iIndex + 1] = Insert(@, c.v, ref),
                                  !.iIndex = @ + 1],
                      LAMBDA next : Fields(T, line, n, i + 1, ref, next))))

\* Lines 160-163 with the two counts exchanged.
CountErrSwapped(n, line, T) == Err("field count mismatch", n, 0, Len(T), Len(line))

\* Lines 160-163: the error of a row whose token count is not the field
\* count: the row, the count in the file and the count in the struct.
CountErr(n, line, T) == Err("field count mismatch", n, 0, Len(line), Len(T))

\* Lines 154-250, from data row n on.  load numbers the call, so that the
\* records of two calls are different objects.  The record of row n is
\* allocated and put into the scratch slice before the row is checked.
RECURSIVE ReadRows(_, _, _, _, _)
ReadRows(T, lines, n, load, acc) ==
    IF n >= Len(lines) THEN acc
    ELSE Bind([acc EXCEPT !.records[n] = <<load, n>>,
                          !.structs = Append(@, NewRecord(T))],
              LAMBDA alloc :
        IF Len(lines[n + 1]) # Len(T)
        THEN [alloc EXCEPT !.err = CountErr(n, lines[n + 1], T)]
        ELSE Bind(Fields(T, lines[n + 1], n, 0, <<load, n>>,
                         [record |-> NewRecord(T), indexes |-> acc.indexes,
                          iIndex |-> 0, err |-> Nil]),
                  LAMBDA r :
            Bind([alloc EXCEPT !.structs[n] = r.record,
                               !.indexes = r.indexes,
                               !.err = r.err],
                 LAMBDA done :
                    IF r.err # Nil THEN done
                    ELSE ReadRows(T, lines, n + 1, load, done))))

\* Lines 134-255: how the call ends ("nil", "error" or "panic"), the error
\* it returns, and the records, structs and indexes it has built.
\* make([]interface{}, len(lines)-1) panics when no row was retained.
ReadResult(store, f, load) ==
    Bind(ReadData(store, f), LAMBDA d :
        Bind(ReadRows(store.typeRecord, d.rows, 1, load,
                      [records |-> [k \in 1..(Len(d.rows) - 1) |-> NilRef],
                       structs |-> <<>>,
                       indexes |-> MakeIndexes(store.typeRecord), err |-> Nil]),
             LAMBDA r :
                IF d.err # Nil THEN [end |-> "error", err |-> d.err, built |-> r]
                ELSE IF Len(d.rows) = 0 THEN [end |-> "panic", err |-> Nil, built |-> r]
                ELSE IF r.err # Nil THEN [end |-> "error", err |-> r.err, built |-> r]
                ELSE [end |-> "nil", err |-> Nil, built |-> r]))

\* ------------------------------------------------------------------ accessors

\* rf.Record(i): rf.records[i] panics when i is out of range.
Record(store, i) ==
    IF i < 0 \/ i >= Len(store.records) THEN [end |-> "panic", val |-> NilRef]
    ELSE [end |-> "nil", val |-> store.records[i + 1]]

\* rf.NumRecord()
NumRecord(store) == Len(store.records)

\* rf.Indexes(i): only i >= len(rf.indexes) is tested before rf.indexes[i].
Indexes(store, i) ==
    IF i >= Len(store.indexes) THEN [end |-> "nil", val |-> NilIndex]
    ELSE IF i < 0 THEN [end |-> "panic", val |-> NilIndex]
    ELSE [end |-> "nil", val |-> store.indexes[i + 1]]

\* rf.Index(key): a lookup in rf.Indexes(0).
Index(store, key) ==
    IF Indexes(store, 0).val.isnil THEN NilRef
    ELSE Lookup(Indexes(store, 0).val, key)

\* ------------------------------------------------------------------ state

VARIABLES
    Comma,       \* the package variable Comma
    Comment,     \* the package variable Comment
    LineEndStr,  \* the package variable LineEndStr
    rf,          \* the *RecordFile under observation (NoStore before New)
    heap,        \* the structs the store's records point to
    ret          \* the last call: its name, argument, end and result

vars == <<Comma, Comment, LineEndStr, rf, heap, ret>>

Call(op, arg, ending, err, val) ==
    [op |-> op, arg |-> arg, end |-> ending, err |-> err, val |-> val]

\* The process is alive: no call has panicked.
Running == ret.end # "panic"

\* The load number of the next Read: one the live records do not carry.
NextLoad(store) ==
    IF store.records # <<>> /\ store.records[1][1] = 1 THEN 2 ELSE 1

\* The heap after a successful Read: the structs of the published records.
HeapOf(built) ==
    [a \in {built.records[k] : k \in 1..Len(built.records)} |-> built.structs[a[2]]]

NoHeap == [a \in {} |-> <<>>]

Init ==
    /\ Comma = DefaultComma
    /\ Comment = DefaultComment
    /\ LineEndStr = DefaultLineEndStr
    /\ rf = NoStore
    /\ heap = NoHeap
    /\ ret = Call("none", 0, "nil", Nil, 0)

\* rf, err := New(st): the first call of the run; the store it returns is
\* the one the later calls are made on.
NewOp(st) ==
    /\ ret.op = "none"
    /\ rf' = NewResult(st).rf
    /\ ret' = Call("New", st, IF NewResult(st).err = Nil THEN "nil" ELSE "error",
                   NewResult(st).err, 0)
    /\ UNCHANGED <<Comma, Comment, LineEndStr, heap>>

\* Lines 252-253 are reached only on the path that returns nil.
Published(r) == r.end = "nil"

\* Lines 252-253 on every path: whatever was built is assigned.
PublishBuilt(store, r) ==
    [store EXCEPT !.records = r.built.records, !.indexes = r.built.indexes]

\* rf.records = records; rf.indexes = indexes
Publish(store, r) ==
    IF Published(r)
    THEN [store EXCEPT !.records = r.built.records, !.indexes = r.built.indexes]
    ELSE store

\* err := rf.Read(name), the file of that name being f.  The separators are
\* filled in first and stay filled in however the call ends; records and
\* indexes are assigned only on the path that returns nil.
ReadOp(f) ==
    /\ Running
    /\ rf.live
    /\ \E cfg \in {FillConfig(rf, Comma, Comment, LineEndStr)} :
       \E r \in {ReadResult(cfg, f, NextLoad(rf))} :
        /\ rf' = Publish(cfg, r)
        /\ heap' = IF Published(r) THEN HeapOf(r.built) ELSE heap
        /\ ret' = Call("Read", f, r.end, r.err, 0)
    /\ UNCHANGED <<Comma, Comment, LineEndStr>>

\* rf.Record(i)
RecordOp(i) ==
    /\ Running
    /\ rf.live
    /\ ret' = Call("Record", i, Record(rf, i).end, Nil, Record(rf, i).val)
    /\ UNCHANGED <<Comma, Comment, LineEndStr, rf, heap>>

\* rf.NumRecord()
NumRecordOp ==
    /\ Running
    /\ rf.live
    /\ ret' = Call("NumRecord", 0, "nil", Nil, NumRecord(rf))
    /\ UNCHANGED <<Comma, Comment, LineEndStr, rf, heap>>

\* rf.Indexes(i)
IndexesOp(i) ==
    /\ Running
    /\ rf.live
    /\ ret' = Call("Indexes", i, Indexes(rf, i).end, Nil, Indexes(rf, i).val)
    /\ UNCHANGED <<Comma, Comment, LineEndStr, rf, heap>>

\* rf.Index(key)
IndexOp(key) ==
    /\ Running
    /\ rf.live
    /\ ret' = Call("Index", key, "nil", Nil, Index(rf, key))
    /\ UNCHANGED <<Comma, Comment, LineEndStr, rf, heap>>

\* A caller assigns the exported package variables.
SetPackageVars(comma, comment, lineEnd) ==
    /\ Running
    /\ Comma' = comma
    /\ Comment' = comment
    /\ LineEndStr' = lineEnd
    /\ ret' = Call("SetPackageVars", 0, "nil", Nil, 0)
    /\ UNCHANGED <<rf, heap>>

\* A caller assigns the exported separator fields of the store.
SetFields(comma, comment, lineEnd) ==
    /\ Running
    /\ rf.live
    /\ rf' = [rf EXCEPT !.Comma = comma, !.Comment = comment, !.LineEndStr = lineEnd]
    /\ ret' = Call("SetFields", 0, "nil", Nil, 0)
    /\ UNCHANGED <<Comma, Comment, LineEndStr, heap>>

\* ------------------------------------------------------------------ inputs

\* Bounds of the inputs.
MaxChunks == 3        \* chunks of a file read by a fresh store
MaxLifeChunks == 3    \* chunks of a file read in the life of one store
MaxNewFields == 2     \* fields of a record shape handed to New
MaxCfgChunks == 2     \* chunks of a file read under changing separators

Field(kind, tag, exported) == [kind |-> kind, tag |-> tag, exported |-> exported]
Struct(fields) == [kind |-> "struct", fields |-> fields]

\* All sequences over S of length at most n.
SeqsUpTo(S, n) == UNION {[1..k -> S] : k \in 0..n}

\* strings.Join
RECURSIVE Join(_, _)
Join(parts, sep) ==
    IF parts = <<>> THEN <<>>
    ELSE IF Len(parts) = 1 THEN parts[1]
    ELSE parts[1] \o sep \o Join(Tail(parts), sep)

\* The tokens drawn for a field of each kind: blank and whitespace tokens,
\* two spellings of one number, tokens the kind cannot parse.
Tokens(kind) ==
    CASE kind = "bool" -> {<<"t">>, <<"x">>}
      [] kind \in IntKinds -> {<<>>, <<"1">>, <<"0", "1">>, <<"x">>}
      [] kind \in UintKinds -> {<<" ">>, <<"0">>, <<"-", "1">>}
      [] kind \in FloatKinds -> {<<>>, <<"1">>, <<"1", ".", "0">>, <<"0", "x", "1">>}
      [] kind = "string" -> {<<"a">>}
      [] kind = "array" -> {JsonNull, JsonArray, JsonArray1, <<"1">>}
      [] OTHER -> {JsonNull, JsonObject, JsonArray}

\* The tokens drawn in the life of one store: a blank and a token no
\* numeric kind parses.
LifeTokens(kind) ==
    CASE kind = "string" -> {<<"a">>}
      [] OTHER -> {<<>>, <<"x">>}

\* One token every kind but bool and the composite ones parses.
One == <<"1">>

\* Every row of tokens for the fields T.
RECURSIVE TokenRows(_, _)
TokenRows(T, life) ==
    IF T = <<>> THEN {<<>>}
    ELSE {<<t>> \o r : t \in (IF life THEN LifeTokens(Head(T).kind) ELSE Tokens(Head(T).kind)),
                       r \in TokenRows(Tail(T), life)}

\* A row with one token too few (one too many for a single field).
Ragged(T) ==
    IF Len(T) > 1 THEN [k \in 1..(Len(T) - 1) |-> <<"a">>] ELSE <<<<"a">>, <<"a">>>>

\* The chunks of the files a fresh store of fields T is given: every row
\* of tokens, a ragged row, a comment line, an empty chunk, a row that still
\* carries a newline, and a chunk that is only a newline.
Chunks(T, comma, comment) ==
    {Join(r, comma) : r \in TokenRows(T, FALSE)}
        \cup {Join(Ragged(T), comma), comment \o <<"c">>, <<>>,
              Join([k \in 1..Len(T) |-> One], comma) \o <<"\n">>, <<"\n">>}

LifeChunks(T, comma) ==
    {Join(r, comma) : r \in TokenRows(T, TRUE)} \cup {Join(Ragged(T), comma)}

File(chunks, lineEnd) == [exists |-> TRUE, content |-> Join(chunks, lineEnd)]

Files(T) ==
    {File(c, DefaultLineEndStr) :
        c \in SeqsUpTo(Chunks(T, DefaultComma, DefaultComment), MaxChunks)}

LifeFiles(T) ==
    {File(c, DefaultLineEndStr) :
        c \in SeqsUpTo(LifeChunks(T, DefaultComma), MaxLifeChunks)}
        \cup {NoFile}

\* The record shapes of the stores that are loaded once.
LoadShapes ==
    {Struct(<<Field("string", "index", TRUE), Field("int8", "index", TRUE)>>),
     Struct(<<Field("int8", "index", TRUE), Field("bool", "", TRUE)>>),
     Struct(<<Field("bool", "", TRUE), Field("int8", "index", TRUE)>>),
     Struct(<<Field("int8", "index", FALSE), Field("string", "index", TRUE)>>),
     Struct(<<Field("float32", "index", TRUE), Field("string", "json", TRUE)>>),
     Struct(<<Field("uint8", "index", TRUE)>>),
     Struct(<<Field("array", "index", TRUE)>>),
     Struct(<<Field("map", "", TRUE), Field("string", "", FALSE)>>)}

\* The arguments of New in the life of one store.
LifeShapes ==
    {Struct(<<Field("string", "", TRUE), Field("int8", "index", TRUE)>>),
     Struct(<<Field("int8", "index", FALSE), Field("string", "index", TRUE)>>),
     Struct(<<Field("map", "index", TRUE)>>),
     Struct(<<Field("ptr", "", TRUE)>>),
     [kind |-> "int", fields |-> <<>>],
     NilType}

\* The record shapes handed to New: every struct of at most MaxNewFields
\* fields over the kinds below, and some values that are no structs.
NewKinds ==
    {"bool", "int", "uint8", "float64", "string", "struct", "array", "slice", "map",
     "ptr", "complex128"}

NewFields == {Field(k, t, TRUE) : k \in NewKinds, t \in {"", "index"}}

NewShapes ==
    {Struct(f) : f \in SeqsUpTo(NewFields, MaxNewFields)}
        \cup {NilType, [kind |-> "int", fields |-> <<>>], [kind |-> "ptr", fields |-> <<>>]}

\* Arguments of the accessors.
Positions == -1..MaxLifeChunks
Slots == -1..MaxNewFields
Keys == {<<"int8", 0>>, <<"int", 0>>, <<"string", <<"a">>>>}

\* ------------------------------------------------------------------ specifications

\* The life of one store under the default separators.
Next ==
    \/ \E st \in LifeShapes : NewOp(st)
    \/ \E f \in LifeFiles(rf.typeRecord) : ReadOp(f)
    \/ \E i \in Positions : RecordOp(i)
    \/ NumRecordOp
    \/ \E i \in Slots : IndexesOp(i)
    \/ \E k \in Keys : IndexOp(k)

Spec == Init /\ [][Next]_vars

\* The first Read of a freshly constructed store.
InitLoad ==
    /\ Comma = DefaultComma
    /\ Comment = DefaultComment
    /\ LineEndStr = DefaultLineEndStr
    /\ \E st \in LoadShapes :
        /\ rf = NewResult(st).rf
        /\ ret = Call("New", st, "nil", NewResult(st).err, 0)
    /\ heap = NoHeap

FirstRead == ret.op = "New" /\ \E f \in Files(rf.typeRecord) : ReadOp(f)

SpecLoad == InitLoad /\ [][FirstRead]_vars

\* New on every record shape.
NextNew == \E st \in NewShapes : NewOp(st)

SpecNew == Init /\ [][NextNew]_vars

\* Read under separators that callers change.
AltComma == <<",">>
AltComment == <<"/">>
AltLineEndStr == <<";">>

CfgShape == Struct(<<Field("string", "", TRUE)>>)

CfgChunks == {<<"a", "~", "a">>, <<"a", ",", "a">>, <<"#", "c">>}

CfgFiles ==
    {File(c, t) : c \in SeqsUpTo(CfgChunks, MaxCfgChunks),
                  t \in {DefaultLineEndStr, AltLineEndStr}}

\* The values callers give the package variables, and the store's fields
\* (an empty field is unset).
PackageConfigs ==
    {<<DefaultComma, DefaultComment, DefaultLineEndStr>>,
     <<AltComma, AltComment, AltLineEndStr>>}

FieldConfigs == {<<<<>>, <<>>, <<>>>>, <<AltComma, <<>>, <<>>>>}

NextCfg ==
    \/ NewOp(CfgShape)
    \/ \E c \in PackageConfigs : SetPackageVars(c[1], c[2], c[3])
    \/ \E c \in FieldConfigs : SetFields(c[1], c[2], c[3])
    \/ \E f \in CfgFiles : ReadOp(f)

SpecCfg == Init /\ [][NextCfg]_vars

\* ------------------------------------------------------------------ properties

\* What the file of the last Read holds, computed from its content alone.

\* The fields of the store's record shape.
Shape == rf.typeRecord

\* The chunks that count as rows: not empty, not starting with the comment
\* marker.
Kept(content, lineEnd, comment) ==
    SelectSeq(Split(content, lineEnd),
              LAMBDA c : c # <<>> /\ ~HasPrefix(c, comment))

Strip(c) == IF HasSuffix(c, <<"\n">>) THEN Take(c, Len(c) - 1) ELSE c

\* The tokens of retained row n (the header is row 0).
TokensOf(K, n, comma) == Split(Strip(K[n + 1]), comma)

\* The data rows of file f under the separators of cfg: row n at D[n].
Data(f, cfg) ==
    Bind(Kept(f.content, cfg.LineEndStr, cfg.Comment), LAMBDA K :
        [n \in 1..(Len(K) - 1) |-> TokensOf(K, n, cfg.Comma)])

\* Row n has one token per field and every field Read sets parses.
RowOk(D, n) ==
    /\ Len(D[n]) = Len(Shape)
    /\ \A j \in 1..Len(Shape) :
        Shape[j].exported => ~Coerce(Shape[j].kind, D[n][j]).err

Val(D, n, j) == Coerce(Shape[j].kind, D[n][j]).v

\* Field j is one Read keeps an index for and sets.
Keyed(j) == Shape[j].tag = "index" /\ Shape[j].exported

\* Row n repeats, in field j, the value of an earlier row.
Repeats(D, n, j) ==
    /\ Keyed(j)
    /\ \E m \in 1..(n - 1) : Val(D, m, j) = Val(D, n, j)

\* Every row before row n is well formed and repeats nothing.
CleanBefore(D, n) ==
    \A m \in 1..(n - 1) :
        RowOk(D, m) /\ \A j \in 1..Len(Shape) : ~Repeats(D, m, j)

\* The slot of the index of field j: the number of index tags before it.
Slot(j) == Cardinality({i \in 1..(j - 1) : Shape[i].tag = "index"})

LastRead == ret.op = "Read" /\ rf.live

\* C1: a Read that returns an error leaves what NumRecord, Record and
\* Indexes return exactly as before the call, the pointed-to records
\* included.
C1_FailedReadKeepsStore ==
    [][(ret'.op = "Read" /\ ret'.end = "error") =>
        /\ rf'.records = rf.records
        /\ rf'.indexes = rf.indexes
        /\ heap' = heap
        /\ NumRecord(rf') = NumRecord(rf)
        /\ \A i \in Positions : Record(rf', i) = Record(rf, i)
        /\ \A i \in Slots : Indexes(rf', i) = Indexes(rf, i)]_vars

\* A Read failed on a duplicate in a store that holds the records of an
\* earlier Read.
C1_Witness ==
    /\ LastRead
    /\ ret.err.kind = "index error: duplicate"
    /\ NumRecord(rf) > 0

\* C2: after a successful Read, for every field tagged "index", the index
\* at the field's slot maps the field's value in each record to that
\* record.
C2_IndexFindsRecord ==
    (LastRead /\ ret.end = "nil") =>
        \A j \in 1..Len(Shape) :
            Shape[j].tag = "index" =>
                \A i \in 1..NumRecord(rf) :
                    /\ Indexes(rf, Slot(j)).end = "nil"
                    /\ Lookup(Indexes(rf, Slot(j)).val, heap[rf.records[i]][j])
                           = rf.records[i]

C4_NumRecordIsRetainedRows ==
    (LastRead /\ ret.end = "nil") =>
        \A K \in {Kept(ret.arg.content, rf.LineEndStr, rf.Comment)} :
            /\ NumRecord(rf) = Len(K) - 1
            /\ \A i \in 1..(Len(K) - 1) :
                \A j \in 1..Len(Shape) :
                    Shape[j].exported =>
                        heap[Record(rf, i - 1).val][j]
                            = Coerce(Shape[j].kind, TokensOf(K, i, rf.Comma)[j]).v

\* A file that opens with a comment line was read and gave one record.
C4_Witness ==
    /\ LastRead
    /\ ret.end = "nil"
    /\ HasPrefix(ret.arg.content, rf.Comment)
    /\ NumRecord(rf) = 1

\* C5: Read ends by returning nil or an error, whatever the file holds.
C5_ReadReturns == LastRead => ret.end \in {"nil", "error"}

\* C6: New returns an error for a struct with a field tagged "index" whose
\* kind is struct, array, slice or map.
C6_NewRejectsCompositeIndex ==
    (/\ ret.op = "New"
     /\ ret.arg.kind = "struct"
     /\ \E k \in 1..Len(ret.arg.fields) :
            /\ ret.arg.fields[k].tag = "index"
            /\ ret.arg.fields[k].kind \in {"struct", "array", "slice", "map"})
    => ret.end = "error"

\* C7: when row n is the first whose token count is not the field count
\* (the rows before it being well formed and free of duplicates), Read
\* returns the count error with row n, the count found and the count
\* expected, whatever the tokens are, and loads nothing; the header's count
\* is not checked, so a file whose data rows are all well formed loads.
C7_CountMismatchReported ==
    (LastRead /\ ret.arg.exists) =>
        \A D \in {Data(ret.arg, rf)} :
            /\ \A n \in 1..Len(D) :
                (CleanBefore(D, n) /\ Len(D[n]) # Len(Shape))
                => /\ ret.end = "error"
                   /\ ret.err = Err("field count mismatch", n, 0,
                                    Len(D[n]), Len(Shape))
                   /\ rf.records = <<>>
            /\ (CleanBefore(D, Len(D) + 1)
                /\ Kept(ret.arg.content, rf.LineEndStr, rf.Comment) # <<>>)
               => ret.end = "nil"

\* The count error was reported for row 2, a row one token short whose
\* token does not parse, in a file whose header has the wrong count too.
C7_Witness ==
    /\ LastRead
    /\ ret.arg.exists
    /\ Len(Shape) = 2
    /\ ret.err = Err("field count mismatch", 2, 0, 1, 2)
    /\ \E K \in {Kept(ret.arg.content, rf.LineEndStr, rf.Comment)} :
        /\ Len(TokensOf(K, 0, rf.Comma)) # Len(Shape)
        /\ Shape[1].exported
        /\ Coerce(Shape[1].kind, TokensOf(K, 2, rf.Comma)[1]).err

C9_IndexesOutOfRange ==
    (/\ ret.op = "Indexes"
     /\ (ret.arg < 0 \/ ret.arg >= Len(rf.indexes)))
    => (ret.end = "nil" /\ ret.val.isnil)

\* C10: when row n has the right count and a token that does not parse
\* (the rows before it being well formed and free of duplicates), Read
\* returns the coercion error for row n, even when a field of the row
\* repeats an indexed value.
C10_CoercionBeforeIndexing ==
    (LastRead /\ ret.arg.exists) =>
        \A D \in {Data(ret.arg, rf)} :
            \A n \in 1..Len(D) :
                (/\ CleanBefore(D, n)
                 /\ Len(D[n]) = Len(Shape)
                 /\ ~RowOk(D, n))
                => /\ ret.end = "error"
                   /\ ret.err.kind = "parse field"
                   /\ ret.err.row = n

=============================================================================
